---- MODULE Spec2Model ----
(***************************************************************************)
(* Energy device monitor: four derived sensors (low cost, high cost, total *)
(* cost, total consumption) of one device, each caching its own snapshots  *)
(* of the host states it depends on, refreshed by its own state-change     *)
(* callback.  Modelled from custom_components/energy_device_monitor.       *)
(***************************************************************************)
EXTENDS Integers, Sequences, FiniteSets, TLC

(***************************************************************************)
(* Bounds of the model.                                                    *)
(***************************************************************************)
\* longest raw state string drawn in SpecRefresh
MaxLen == 3
\* number of host state changes in one behaviour of Spec
MaxChanges == 2
\* number of times the config entry is set up in one behaviour of Spec
MaxLoads == 2

(***************************************************************************)
(* Python values.  A float is a record: a finite number (modelled as an    *)
(* integer), an infinity with its sign, a NaN, or None.                    *)
(***************************************************************************)
None == [k |-> "none", v |-> 0]
NaN == [k |-> "nan", v |-> 0]
Num(n) == [k |-> "num", v |-> n]
Inf(sign) == [k |-> "inf", v |-> sign]

Sign(n) == IF n > 0 THEN 1 ELSE IF n < 0 THEN 0 - 1 ELSE 0

\* float.__mul__ (IEEE-754): NaN is absorbing, inf * 0 is NaN
FloatMul(a, b) ==
    IF a.k = "nan" \/ b.k = "nan" THEN NaN
    ELSE IF a.k = "num" /\ b.k = "num" THEN Num(a.v * b.v)
    ELSE IF Sign(a.v) * Sign(b.v) = 0 THEN NaN
    ELSE Inf(Sign(a.v) * Sign(b.v))

\* float.__add__ (IEEE-754): inf + -inf is NaN
FloatAdd(a, b) ==
    IF a.k = "nan" \/ b.k = "nan" THEN NaN
    ELSE IF a.k = "num" /\ b.k = "num" THEN Num(a.v + b.v)
    ELSE IF a.k = "inf" /\ b.k = "inf"
         THEN (IF a.v = b.v THEN a ELSE NaN)
    ELSE IF a.k = "inf" THEN a ELSE b

\* the outcome of evaluating an expression: a value, or a raised exception
Returned(x) == [raised |-> "", value |-> x]
Raised(exc) == [raised |-> exc, value |-> None]
\* the same for an expression of type bool
RaisedBool(exc) == [raised |-> exc, value |-> FALSE]

\* a * b on attribute values that may be None: None has no __mul__
PyMul(a, b) ==
    IF a.raised # "" THEN a
    ELSE IF b.raised # "" THEN b
    ELSE IF a.value.k = "none" \/ b.value.k = "none" THEN Raised("TypeError")
    ELSE Returned(FloatMul(a.value, b.value))

\* a + b on values that may be None
PyAdd(a, b) ==
    IF a.raised # "" THEN a
    ELSE IF b.raised # "" THEN b
    ELSE IF a.value.k = "none" \/ b.value.k = "none" THEN Raised("TypeError")
    ELSE Returned(FloatAdd(a.value, b.value))

(***************************************************************************)
(* Raw host states.  A state string is a sequence of characters.           *)
(***************************************************************************)
Digits == {"0", "1", "5"}
\* the characters the raw state strings of SpecRefresh are made of
Chars == {"1", "5", "-", " ", "n", "a", "i", "f"}

STATE_UNAVAILABLE == <<"u", "n", "a", "v", "a", "i", "l", "a", "b", "l", "e">>

\* what hass.states.get(entity_id) returns: None ("missing"), a State whose
\* .state is None ("null"), or a State whose .state is a string ("str")
NoState == [kind |-> "missing", state |-> <<>>]
NullState == [kind |-> "null", state |-> <<>>]
Str(s) == [kind |-> "str", state |-> s]

RECURSIVE LStrip(_)
LStrip(s) == IF s # <<>> /\ Head(s) = " " THEN LStrip(Tail(s)) ELSE s

RECURSIVE RStrip(_)
RStrip(s) ==
    IF s # <<>> /\ s[Len(s)] = " " THEN RStrip(SubSeq(s, 1, Len(s) - 1)) ELSE s

RECURSIVE DigitsValue(_)
DigitsValue(s) ==
    IF s = <<>> THEN 0
    ELSE 10 * DigitsValue(SubSeq(s, 1, Len(s) - 1))
         + (IF s[Len(s)] = "0" THEN 0 ELSE IF s[Len(s)] = "1" THEN 1 ELSE 5)

\* float(str): surrounding whitespace is stripped, an optional sign, then
\* "inf", "infinity", "nan" or a decimal numeral; anything else raises
\* ValueError
ParseFloat(s) ==
    LET t == RStrip(LStrip(s))
        neg == t # <<>> /\ Head(t) = "-"
        body == IF neg THEN Tail(t) ELSE t
        sign == IF neg THEN 0 - 1 ELSE 1
    IN  IF body = <<"i", "n", "f">>
           \/ body = <<"i", "n", "f", "i", "n", "i", "t", "y">>
        THEN Returned(Inf(sign))
        ELSE IF body = <<"n", "a", "n">> THEN Returned(NaN)
        ELSE IF body # <<>> /\ \A k \in 1..Len(body) : body[k] \in Digits
        THEN Returned(Num(sign * DigitsValue(body)))
        ELSE Raised("ValueError")

(***************************************************************************)
(* EnergyDeviceEntityState and the refresh of one identifier.              *)
(***************************************************************************)
\* an instance attribute that was never assigned
Unset == [set |-> FALSE, available |-> FALSE, state |-> None]

EnergyDeviceEntityState(available, state) ==
    [set |-> TRUE, available |-> available, state |-> state]

\* AsyncUpdateEntityState building the available snapshot without its state
AsyncUpdateEntityStateNoValue(raw) ==
    IF raw.kind = "missing" \/ raw.kind = "null" \/ raw.state = STATE_UNAVAILABLE
    THEN Returned(EnergyDeviceEntityState(FALSE, None))
    ELSE LET f == ParseFloat(raw.state)
         IN  IF f.raised = ""
             THEN Returned(EnergyDeviceEntityState(TRUE, None))
             ELSE IF f.raised = "ValueError"
             THEN Returned(EnergyDeviceEntityState(FALSE, None))
             ELSE f

\* the outcome of _async_update_entity_state on a raw host state
AsyncUpdateEntityState(raw) ==
    IF raw.kind = "missing" \/ raw.kind = "null" \/ raw.state = STATE_UNAVAILABLE
    THEN Returned(EnergyDeviceEntityState(FALSE, None))
    ELSE LET f == ParseFloat(raw.state)
         IN  IF f.raised = ""
             THEN Returned(EnergyDeviceEntityState(TRUE, f.value))
             ELSE IF f.raised = "ValueError"
             THEN Returned(EnergyDeviceEntityState(FALSE, None))
             ELSE f

(***************************************************************************)
(* Configuration: the four tracked entity ids and the four sensor classes. *)
(***************************************************************************)
CONF_LOW_TARIFF_ENTITY == "conf_low_tariff_entity"
CONF_HIGH_TARIFF_ENTITY == "conf_high_tariff_entity"
CONF_LOW_CONSUMPTION_ENTITY == "conf_low_consumption_entity"
CONF_HIGH_CONSUMPTION_ENTITY == "conf_high_consumption_entity"

\* in the order __init__ appends them to entities_to_track
InputOrder ==
    << CONF_LOW_TARIFF_ENTITY, CONF_HIGH_TARIFF_ENTITY,
       CONF_LOW_CONSUMPTION_ENTITY, CONF_HIGH_CONSUMPTION_ENTITY >>
Inputs == {InputOrder[k] : k \in 1..Len(InputOrder)}

\* the sensor classes, in the order async_setup_entry constructs them
SensorOrder == <<"low_cost", "high_cost", "total_cost", "total_consumption">>
Kinds == {SensorOrder[k] : k \in 1..Len(SensorOrder)}

\* the include_* flags each subclass passes to the base __init__
Include(kind) ==
    CASE kind = "total_cost" ->
            { CONF_LOW_TARIFF_ENTITY, CONF_LOW_CONSUMPTION_ENTITY,
              CONF_HIGH_TARIFF_ENTITY, CONF_HIGH_CONSUMPTION_ENTITY }
      [] kind = "low_cost" ->
            { CONF_LOW_TARIFF_ENTITY, CONF_LOW_CONSUMPTION_ENTITY }
      [] kind = "high_cost" ->
            { CONF_HIGH_TARIFF_ENTITY, CONF_HIGH_CONSUMPTION_ENTITY }
      [] kind = "total_consumption" ->
            { CONF_LOW_CONSUMPTION_ENTITY, CONF_HIGH_CONSUMPTION_ENTITY }

\* the attribute of the sensor that caches the snapshot of an entity id
StateAttr(d) ==
    CASE d = CONF_LOW_TARIFF_ENTITY -> "low_tariff_state"
      [] d = CONF_HIGH_TARIFF_ENTITY -> "high_tariff_state"
      [] d = CONF_LOW_CONSUMPTION_ENTITY -> "low_consumption_state"
      [] d = CONF_HIGH_CONSUMPTION_ENTITY -> "high_consumption_state"

VARIABLES
    hostStates,   \* hass.states of the four tracked entity ids
    loaded,       \* whether the config entry is set up
    generation,   \* how many times the config entry was set up
    entities,     \* every sensor object constructed so far, by [gen, kind]
    listeners,    \* what async_track_state_change_event has registered
    tasks,        \* _handle_state_change calls of the state change being
                  \* dispatched that are still to run, in listener order
    published,    \* hass.states of the four sensor entities
    changes,      \* number of host state changes so far
    exceptions    \* exceptions that escaped a task

vars ==
    << hostStates, loaded, generation, entities, listeners, tasks,
       published, changes, exceptions >>

Instance(gen, kind) == [gen |-> gen, kind |-> kind]

(***************************************************************************)
(* EnergyDeviceMonitorSensor                                               *)
(***************************************************************************)
\* the sensor object __init__ leaves: the four *_state attributes are only
\* annotated in the class body, none is assigned
NewSensor ==
    [ platform_state |-> "constructed",
      low_tariff_state |-> Unset,
      high_tariff_state |-> Unset,
      low_consumption_state |-> Unset,
      high_consumption_state |-> Unset ]

\* EntitiesToTrack with the total cost sensor not tracking the high tariff
EntitiesToTrackTotalNoHighTariff(kind) ==
    SelectSeq(InputOrder,
              LAMBDA d : /\ d \in Include(kind)
                         /\ ~(kind = "total_cost" /\ d = CONF_HIGH_TARIFF_ENTITY))

\* EntitiesToTrack without the test of include_high_tariff
EntitiesToTrackNoHighTariff(kind) ==
    SelectSeq(InputOrder,
              LAMBDA d : d \in Include(kind) \ {CONF_HIGH_TARIFF_ENTITY})

\* entities_to_track of __init__
EntitiesToTrack(kind) ==
    SelectSeq(InputOrder, LAMBDA d : d \in Include(kind))

\* async_update from position k of the include_* tests on: each included
\* attribute is replaced by the refresh of its entity id
RECURSIVE AsyncUpdateFrom(_, _, _, _)
AsyncUpdateFrom(self, kind, states, k) ==
    IF k > Len(InputOrder) THEN Returned(self)
    ELSE LET d == InputOrder[k]
         IN  IF d \notin Include(kind)
             THEN AsyncUpdateFrom(self, kind, states, k + 1)
             ELSE LET r == AsyncUpdateEntityState(states[d])
                  IN  IF r.raised # "" THEN [raised |-> r.raised, value |-> self]
                      ELSE AsyncUpdateFrom(
                               [self EXCEPT ![StateAttr(d)] = r.value],
                               kind, states, k + 1)

\* AsyncUpdate ignoring the include_* flags: all four attributes are
\* refreshed
AsyncUpdateIgnoresFlags(self, kind, states) ==
    AsyncUpdateFrom(self, "total_cost", states, 1)

AsyncUpdate(self, kind, states) == AsyncUpdateFrom(self, kind, states, 1)

\* self.<attr>.available: AttributeError when the attribute was never set
AttrAvailable(self, d) ==
    IF self[StateAttr(d)].set
    THEN [raised |-> "", value |-> self[StateAttr(d)].available]
    ELSE RaisedBool("AttributeError")

\* self.<attr>.state
AttrState(self, d) ==
    IF self[StateAttr(d)].set
    THEN Returned(self[StateAttr(d)].state)
    ELSE Raised("AttributeError")

\* a and b of Python: b is evaluated only when a is true
PyAnd(a, b) == IF a.raised # "" \/ ~a.value THEN a ELSE b

\* Available with the total cost sensor forgetting its high tariff snapshot
AvailableSkipsHighTariff(self, kind) ==
    CASE kind = "total_cost" ->
            PyAnd(AttrAvailable(self, CONF_LOW_TARIFF_ENTITY),
            PyAnd(AttrAvailable(self, CONF_LOW_CONSUMPTION_ENTITY),
                  AttrAvailable(self, CONF_HIGH_CONSUMPTION_ENTITY)))
      [] kind = "low_cost" ->
            PyAnd(AttrAvailable(self, CONF_LOW_TARIFF_ENTITY),
                  AttrAvailable(self, CONF_LOW_CONSUMPTION_ENTITY))
      [] kind = "high_cost" ->
            PyAnd(AttrAvailable(self, CONF_HIGH_TARIFF_ENTITY),
                  AttrAvailable(self, CONF_HIGH_CONSUMPTION_ENTITY))
      [] kind = "total_consumption" ->
            PyAnd(AttrAvailable(self, CONF_LOW_CONSUMPTION_ENTITY),
                  AttrAvailable(self, CONF_HIGH_CONSUMPTION_ENTITY))

\* the available property of the four subclasses
Available(self, kind) ==
    CASE kind = "total_cost" ->
            PyAnd(AttrAvailable(self, CONF_LOW_TARIFF_ENTITY),
            PyAnd(AttrAvailable(self, CONF_HIGH_TARIFF_ENTITY),
            PyAnd(AttrAvailable(self, CONF_LOW_CONSUMPTION_ENTITY),
                  AttrAvailable(self, CONF_HIGH_CONSUMPTION_ENTITY))))
      [] kind = "low_cost" ->
            PyAnd(AttrAvailable(self, CONF_LOW_TARIFF_ENTITY),
                  AttrAvailable(self, CONF_LOW_CONSUMPTION_ENTITY))
      [] kind = "high_cost" ->
            PyAnd(AttrAvailable(self, CONF_HIGH_TARIFF_ENTITY),
                  AttrAvailable(self, CONF_HIGH_CONSUMPTION_ENTITY))
      [] kind = "total_consumption" ->
            PyAnd(AttrAvailable(self, CONF_LOW_CONSUMPTION_ENTITY),
                  AttrAvailable(self, CONF_HIGH_CONSUMPTION_ENTITY))

\* NativeValue with the total cost pricing both consumptions at the low
\* tariff
NativeValueOneTariff(self, kind) ==
    CASE kind = "total_cost" ->
            PyAdd(PyMul(AttrState(self, CONF_LOW_TARIFF_ENTITY),
                        AttrState(self, CONF_LOW_CONSUMPTION_ENTITY)),
                  PyMul(AttrState(self, CONF_LOW_TARIFF_ENTITY),
                        AttrState(self, CONF_HIGH_CONSUMPTION_ENTITY)))
      [] kind = "low_cost" ->
            PyMul(AttrState(self, CONF_LOW_TARIFF_ENTITY),
                  AttrState(self, CONF_LOW_CONSUMPTION_ENTITY))
      [] kind = "high_cost" ->
            PyMul(AttrState(self, CONF_HIGH_TARIFF_ENTITY),
                  AttrState(self, CONF_HIGH_CONSUMPTION_ENTITY))
      [] kind = "total_consumption" ->
            PyAdd(AttrState(self, CONF_LOW_CONSUMPTION_ENTITY),
                  AttrState(self, CONF_HIGH_CONSUMPTION_ENTITY))

\* the native_value property of the four subclasses
NativeValue(self, kind) ==
    CASE kind = "total_cost" ->
            PyAdd(PyMul(AttrState(self, CONF_LOW_TARIFF_ENTITY),
                        AttrState(self, CONF_LOW_CONSUMPTION_ENTITY)),
                  PyMul(AttrState(self, CONF_HIGH_TARIFF_ENTITY),
                        AttrState(self, CONF_HIGH_CONSUMPTION_ENTITY)))
      [] kind = "low_cost" ->
            PyMul(AttrState(self, CONF_LOW_TARIFF_ENTITY),
                  AttrState(self, CONF_LOW_CONSUMPTION_ENTITY))
      [] kind = "high_cost" ->
            PyMul(AttrState(self, CONF_HIGH_TARIFF_ENTITY),
                  AttrState(self, CONF_HIGH_CONSUMPTION_ENTITY))
      [] kind = "total_consumption" ->
            PyAdd(AttrState(self, CONF_LOW_CONSUMPTION_ENTITY),
                  AttrState(self, CONF_HIGH_CONSUMPTION_ENTITY))

(***************************************************************************)
(* The host (Home Assistant) around the sensors.                           *)
(***************************************************************************)
NoPublishedState == [exists |-> FALSE, available |-> FALSE, value |-> None]

\* what the host's state write computes from the sensor: it reads
\* available, and native_value only when available is true
WriteHaState(self, kind) ==
    LET a == Available(self, kind)
        v == NativeValue(self, kind)
    IN  IF a.raised # "" THEN [raised |-> a.raised, value |-> NoPublishedState]
        ELSE IF ~a.value
        THEN Returned([exists |-> TRUE, available |-> FALSE, value |-> None])
        ELSE IF v.raised # "" THEN [raised |-> v.raised, value |-> NoPublishedState]
        ELSE Returned([exists |-> TRUE, available |-> TRUE, value |-> v.value])

\* async_update_ha_state(True) on a sensor: async_update, then the state
\* write unless the entity was removed.  [entity, raised, write, state]
UpdateHaState(self, kind, states) ==
    LET u == AsyncUpdate(self, kind, states)
        w == WriteHaState(u.value, kind)
    IN  IF u.raised # ""
        THEN [entity |-> u.value, raised |-> u.raised, write |-> FALSE,
              state |-> NoPublishedState]
        ELSE IF self.platform_state = "removed"
        THEN [entity |-> u.value, raised |-> "", write |-> FALSE,
              state |-> NoPublishedState]
        ELSE [entity |-> u.value, raised |-> w.raised, write |-> w.raised = "",
              state |-> w.value]

\* the listeners async_track_state_change_event calls for entity id d, in
\* registration order
ListenersOf(d) ==
    SelectSeq(listeners, LAMBDA l : \E k \in 1..Len(l.entity_ids) : l.entity_ids[k] = d)

CurrentInstances == {Instance(generation, kind) : kind \in Kinds}

\* the raw host states drawn in Spec
RawStates == { Str(STATE_UNAVAILABLE), Str(<<"1", "0">>), Str(<<"-", "1">>) }

\* the host states before the integration is first set up: no tracked
\* entity has a state yet, or all four have a reading
InitialHostStates ==
    { [d \in Inputs |-> NoState],
      [d \in Inputs |->
          IF d \in {CONF_LOW_TARIFF_ENTITY, CONF_HIGH_CONSUMPTION_ENTITY}
          THEN Str(<<"5">>) ELSE Str(<<"1", "0">>)] }

(***************************************************************************)
(* Setting up and unloading the config entry.                              *)
(***************************************************************************)
\* sensor.async_setup_entry for load g: the four sensors are constructed
WithSensors(ents, g) ==
    [i \in DOMAIN ents \cup {Instance(g, kind) : kind \in Kinds} |->
        IF i \in DOMAIN ents THEN ents[i] ELSE NewSensor]

\* each __init__ registers its listener; the unsubscribe callable that
\* async_track_state_change_event returns is dropped
WithListeners(ls, g) ==
    ls \o [k \in 1..Len(SensorOrder) |->
              [inst |-> Instance(g, SensorOrder[k]),
               entity_ids |-> EntitiesToTrack(SensorOrder[k])]]

\* async_unload_platforms: the entities of load g are removed from the host
WithoutSensors(ents, g) ==
    [i \in DOMAIN ents |->
        IF i.gen = g THEN [ents[i] EXCEPT !.platform_state = "removed"]
        ELSE ents[i]]

Init ==
    /\ hostStates \in InitialHostStates
    /\ loaded = FALSE
    /\ generation = 0
    /\ entities = [i \in {} |-> NewSensor]
    /\ listeners = <<>>
    /\ tasks = <<>>
    /\ published = [kind \in Kinds |-> NoPublishedState]
    /\ changes = 0
    /\ exceptions = {}

\* __init__.async_setup_entry: the platform is set up
SetupEntry ==
    /\ tasks = <<>>
    /\ ~loaded
    /\ generation < MaxLoads
    /\ loaded' = TRUE
    /\ generation' = generation + 1
    /\ entities' = WithSensors(entities, generation + 1)
    /\ listeners' = WithListeners(listeners, generation + 1)
    /\ UNCHANGED <<hostStates, tasks, published, changes, exceptions>>

\* the task async_add_entities(update_before_add=True) schedules: each new
\* entity is updated, added, and its state written
AddEntities ==
    /\ tasks = <<>>
    /\ loaded
    /\ \E i \in CurrentInstances : entities[i].platform_state = "constructed"
    /\ LET new == {i \in CurrentInstances :
                      entities[i].platform_state = "constructed"}
           r == [i \in new |->
                    UpdateHaState(entities[i], i.kind, hostStates)]
       IN  /\ entities' =
                 [i \in DOMAIN entities |->
                     IF i \notin new THEN entities[i]
                     ELSE IF r[i].raised # "" THEN r[i].entity
                     ELSE [r[i].entity EXCEPT !.platform_state = "added"]]
           /\ published' =
                 [kind \in Kinds |->
                     IF Instance(generation, kind) \in new
                        /\ r[Instance(generation, kind)].write
                     THEN r[Instance(generation, kind)].state
                     ELSE published[kind]]
           /\ exceptions' =
                 exceptions \cup ({r[i].raised : i \in new} \ {""})
    /\ UNCHANGED <<hostStates, loaded, generation, listeners, tasks, changes>>

\* the host changes the state of entity id d to raw and fires the
\* state_changed event.  The host starts the handler of every listener
\* tracking d, in registration order; a handler never suspends, so each
\* runs to completion before the next starts and before the host does
\* anything else
InputChange(d, raw) ==
    /\ tasks = <<>>
    /\ raw # hostStates[d]
    /\ hostStates' = [hostStates EXCEPT ![d] = raw]
    /\ LET ls == ListenersOf(d)
       IN  tasks' =
              [k \in 1..Len(ls) |->
                  [inst |-> ls[k].inst,
                   event |-> [entity_id |-> d, old_state |-> hostStates[d],
                              new_state |-> raw]]]
    /\ changes' = changes + 1
    /\ UNCHANGED <<loaded, generation, entities, listeners, published,
                   exceptions>>

HostChange ==
    /\ changes < MaxChanges
    /\ \E d \in Inputs, raw \in RawStates : InputChange(d, raw)

\* HandleStateChange calling async_update_ha_state without force_refresh:
\* the state is written from the snapshots as they are
HandleStateChangeNoRefresh ==
    /\ tasks # <<>>
    /\ LET i == Head(tasks).inst
           w == WriteHaState(entities[i], i.kind)
       IN  /\ published' =
                 IF entities[i].platform_state # "removed" /\ w.raised = ""
                 THEN [published EXCEPT ![i.kind] = w.value]
                 ELSE published
           /\ exceptions' =
                 IF entities[i].platform_state # "removed"
                 THEN exceptions \cup ({w.raised} \ {""})
                 ELSE exceptions
    /\ tasks' = Tail(tasks)
    /\ UNCHANGED <<hostStates, loaded, generation, entities, listeners,
                   changes>>

\* _handle_state_change of the next listener of the dispatch
HandleStateChange ==
    /\ tasks # <<>>
    /\ LET i == Head(tasks).inst
           r == UpdateHaState(entities[i], i.kind, hostStates)
       IN  /\ entities' = [entities EXCEPT ![i] = r.entity]
           /\ published' =
                 IF r.write THEN [published EXCEPT ![i.kind] = r.state]
                 ELSE published
           /\ exceptions' = exceptions \cup ({r.raised} \ {""})
    /\ tasks' = Tail(tasks)
    /\ UNCHANGED <<hostStates, loaded, generation, listeners, changes>>

\* async_unload_entry: the platform is unloaded, the entities are removed
\* and their states with them
UnloadEntry ==
    /\ tasks = <<>>
    /\ loaded
    /\ \A i \in CurrentInstances : entities[i].platform_state = "added"
    /\ loaded' = FALSE
    /\ entities' = WithoutSensors(entities, generation)
    /\ published' = [kind \in Kinds |-> NoPublishedState]
    /\ UNCHANGED <<hostStates, generation, listeners, tasks, changes,
                   exceptions>>

\* async_update_entry, the update listener: async_reload unloads the entry
\* and sets it up again
UpdateEntry ==
    /\ tasks = <<>>
    /\ loaded
    /\ \A i \in CurrentInstances : entities[i].platform_state = "added"
    /\ generation < MaxLoads
    /\ generation' = generation + 1
    /\ entities' =
          WithSensors(WithoutSensors(entities, generation), generation + 1)
    /\ listeners' = WithListeners(listeners, generation + 1)
    /\ published' = [kind \in Kinds |-> NoPublishedState]
    /\ UNCHANGED <<hostStates, loaded, tasks, changes, exceptions>>

Next ==
    \/ SetupEntry
    \/ AddEntities
    \/ HostChange
    \/ HandleStateChange
    \/ UnloadEntry
    \/ UpdateEntry

Spec == Init /\ [][Next]_vars

(***************************************************************************)
(* SpecRefresh: the refresh of one identifier on every raw state string up *)
(* to MaxLen characters.  The entry has just been set up over a host whose *)
(* low tariff entity holds one of PreviousStates; the entities are added   *)
(* and the low tariff entity changes once, to any string.                  *)
(***************************************************************************)
RawStrings == UNION {[1..n -> Chars] : n \in 0..MaxLen}

PreviousStates ==
    { NoState, NullState, Str(STATE_UNAVAILABLE), Str(<<"1", "0">>),
      Str(<<"n", "a", "n">>) }

InitRefresh ==
    /\ \E prev \in PreviousStates :
          hostStates =
             [d \in Inputs |->
                 IF d = CONF_LOW_TARIFF_ENTITY THEN prev ELSE Str(<<"5">>)]
    /\ loaded = TRUE
    /\ generation = 1
    /\ entities = WithSensors([i \in {} |-> NewSensor], 1)
    /\ listeners = WithListeners(<<>>, 1)
    /\ tasks = <<>>
    /\ published = [kind \in Kinds |-> NoPublishedState]
    /\ changes = 0
    /\ exceptions = {}

RefreshChange ==
    /\ changes = 0
    /\ \E s \in RawStrings : InputChange(CONF_LOW_TARIFF_ENTITY, Str(s))

NextRefresh ==
    \/ AddEntities
    \/ RefreshChange
    \/ HandleStateChange

SpecRefresh == InitRefresh /\ [][NextRefresh]_vars

(***************************************************************************)
(* Properties                                                              *)
(***************************************************************************)
\* the snapshot sensor i holds of entity id d
Snapshot(i, d) == entities[i][StateAttr(d)]

\* async_update has run on sensor i
Updated(i) == \A d \in Include(i.kind) : Snapshot(i, d).set

\* a handler of sensor i is still to run in the current dispatch
Pending(i) == \E k \in 1..Len(tasks) : tasks[k].inst = i

\* C1: reading available on a sensor gives true exactly when the snapshot
\* of every declared dependency is available, and gives false as soon as
\* the snapshot of one declared dependency is unavailable, whatever the
\* others hold.
C1_AndAvailability ==
    \A i \in DOMAIN entities :
        LET a == Available(entities[i], i.kind)
        IN  /\ (a.raised = "" /\ a.value)
                  <=> \A d \in Include(i.kind) :
                         Snapshot(i, d).set /\ Snapshot(i, d).available
            /\ (\E d \in Include(i.kind) :
                   Snapshot(i, d).set /\ ~Snapshot(i, d).available)
                  => (a.raised = "" /\ ~a.value)

\* the total cost sensor with exactly one unavailable snapshot, the high
\* tariff, reads as unavailable
C1_Witness ==
    \E i \in DOMAIN entities :
        /\ i.kind = "total_cost"
        /\ Updated(i)
        /\ ~Snapshot(i, CONF_HIGH_TARIFF_ENTITY).available
        /\ \A d \in Include(i.kind) \ {CONF_HIGH_TARIFF_ENTITY} :
              Snapshot(i, d).available
        /\ Available(entities[i], i.kind) = [raised |-> "", value |-> FALSE]

\* C2 (as claimed): on a sensor that has been updated and has an
\* unavailable dependency, reading native_value does not fail and returns
\* none.
C2_UnavailableReadsNone ==
    \A i \in DOMAIN entities :
        (Updated(i) /\ ~Available(entities[i], i.kind).value)
            => NativeValue(entities[i], i.kind) = Returned(None)

\* C3 (as claimed): from construction on, the snapshot of every declared
\* dependency of a sensor exists (unavailable until reported), so reading
\* available does not fail.
C3_SnapshotsExistFromConstruction ==
    \A i \in DOMAIN entities :
        /\ \A d \in Include(i.kind) : Snapshot(i, d).set
        /\ Available(entities[i], i.kind).raised = ""

\* C6: whenever a sensor is available its native_value is the fixed
\* combination of its snapshots: price * consumption for the two costs,
\* their sum over both tariffs for the total cost, low + high for the
\* total consumption; nothing is clamped.
C6_Combination ==
    \A i \in DOMAIN entities :
        LET a == Available(entities[i], i.kind)
            v == NativeValue(entities[i], i.kind)
            lp == entities[i].low_tariff_state.state
            hp == entities[i].high_tariff_state.state
            lc == entities[i].low_consumption_state.state
            hc == entities[i].high_consumption_state.state
        IN  (a.raised = "" /\ a.value) =>
               /\ v.raised = ""
               /\ v.value =
                     CASE i.kind = "low_cost" -> FloatMul(lp, lc)
                       [] i.kind = "high_cost" -> FloatMul(hp, hc)
                       [] i.kind = "total_cost" ->
                             FloatAdd(FloatMul(lp, lc), FloatMul(hp, hc))
                       [] i.kind = "total_consumption" -> FloatAdd(lc, hc)
               /\ (\A d \in Include(i.kind) : Snapshot(i, d).state.k = "num")
                     => v.value =
                           CASE i.kind = "low_cost" -> Num(lp.v * lc.v)
                             [] i.kind = "high_cost" -> Num(hp.v * hc.v)
                             [] i.kind = "total_cost" ->
                                   Num((lp.v * lc.v) + (hp.v * hc.v))
                             [] i.kind = "total_consumption" ->
                                   Num(lc.v + hc.v)

\* low consumption 10 and high consumption 5 give a total consumption of
\* 15, and a negative reading goes into the total cost unclamped
C6_Witness ==
    \E i, j \in DOMAIN entities :
        /\ i.kind = "total_consumption"
        /\ Snapshot(i, CONF_LOW_CONSUMPTION_ENTITY) =
              EnergyDeviceEntityState(TRUE, Num(10))
        /\ Snapshot(i, CONF_HIGH_CONSUMPTION_ENTITY) =
              EnergyDeviceEntityState(TRUE, Num(5))
        /\ NativeValue(entities[i], i.kind) = Returned(Num(15))
        /\ j.kind = "total_cost"
        /\ Available(entities[j], j.kind).value
        /\ Snapshot(j, CONF_LOW_TARIFF_ENTITY).state.v < 0
        /\ NativeValue(entities[j], j.kind).value.v < 0

\* sensor i is not behind the host: it has been updated and no handler of
\* it is still to run
Settled(i) == Updated(i) /\ ~Pending(i)

\* a raw host state that is a string float() turns into a finite number
IsFiniteReading(raw) ==
    /\ raw.kind = "str"
    /\ ParseFloat(raw.state).raised = ""
    /\ ParseFloat(raw.state).value.k = "num"

\* C4 (as claimed): after the refresh of an identifier no error has been
\* raised, and the snapshot is available only if the raw host state is a
\* well-formed finite numeric reading; absent, empty, sentinel and
\* non-numeric states give available = false.
C4_OnlyFiniteReadingsAvailable ==
    /\ exceptions = {}
    /\ \A i \in DOMAIN entities :
          Settled(i) =>
             \A d \in Include(i.kind) :
                Snapshot(i, d).available => IsFiniteReading(hostStates[d])

\* C5: after the refresh of an identifier whose raw host state parses as a
\* finite number, the snapshot is available and holds exactly the parsed
\* value, whatever it held before.
C5_FiniteReadingStored ==
    \A i \in DOMAIN entities :
        Settled(i) =>
           \A d \in Include(i.kind) :
              IsFiniteReading(hostStates[d]) =>
                 Snapshot(i, d) =
                    EnergyDeviceEntityState(
                        TRUE, ParseFloat(hostStates[d].state).value)

\* the low tariff went from 10 to " -5", the handler of the low cost
\* sensor has run and that of the total cost sensor has not: the first
\* holds -5, the second still 10
C5_Witness ==
    \E i, j \in DOMAIN entities :
        /\ i.kind = "low_cost"
        /\ j.kind = "total_cost"
        /\ tasks # <<>>
        /\ Head(tasks).inst = j
        /\ Head(tasks).event.old_state = Str(<<"1", "0">>)
        /\ hostStates[CONF_LOW_TARIFF_ENTITY] = Str(<<" ", "-", "5">>)
        /\ Snapshot(j, CONF_LOW_TARIFF_ENTITY) =
              EnergyDeviceEntityState(TRUE, Num(10))
        /\ Snapshot(i, CONF_LOW_TARIFF_ENTITY) =
              EnergyDeviceEntityState(TRUE, Num(0 - 5))

\* the snapshot a refresh of raw host state raw yields
Refreshed(raw) == AsyncUpdateEntityState(raw).value

\* sensor i holds, of every declared dependency, the snapshot of the
\* current host state
Fresh(i) ==
    \A d \in Include(i.kind) : Snapshot(i, d) = Refreshed(hostStates[d])

\* the sensors of the device that have not been removed
DeviceSensors == {i \in DOMAIN entities : entities[i].platform_state # "removed"}

\* the step is the handler (or the add) of sensor i running its async_update
RefreshStep(i) ==
    \/ tasks # <<>> /\ Head(tasks).inst = i /\ tasks' = Tail(tasks)
    \/ /\ entities[i].platform_state = "constructed"
       /\ entities'[i].platform_state = "added"

\* C7 (as claimed): whenever any of the four identifiers changes, every
\* sensor of the device is scheduled for an update.
C7_EverySensorRefreshed ==
    [][\A d \in Inputs :
          hostStates'[d] # hostStates[d]
             => \A i \in DeviceSensors : Pending(i)']_vars

\* C7 (amended): whenever an identifier changes, every sensor of the device
\* that declares it as a dependency is scheduled for an update; the state of
\* a sensor is written only from snapshots of the current host states; and
\* an added sensor with no update outstanding holds the current host states
\* and has published their evaluation.
C7_DependentsRefreshedBeforeRead ==
    /\ [][\A d \in Inputs :
             hostStates'[d] # hostStates[d]
                => \A i \in DeviceSensors :
                      d \in Include(i.kind) => Pending(i)']_vars
    /\ [][\A i \in DOMAIN entities :
             (RefreshStep(i) /\ published'[i.kind] # published[i.kind])
                => Fresh(i)']_vars
    /\ [](\A i \in DOMAIN entities :
             (entities[i].platform_state = "added" /\ ~Pending(i))
                => /\ Fresh(i)
                   /\ published[i.kind] =
                         WriteHaState(entities[i], i.kind).value)

\* the high tariff has changed: the high cost sensor is about to be updated,
\* the low cost sensor of the same load is added, fresh and not scheduled
C7_Witness ==
    /\ tasks # <<>>
    /\ Head(tasks).event.entity_id = CONF_HIGH_TARIFF_ENTITY
    /\ Head(tasks).inst = Instance(generation, "high_cost")
    /\ entities[Instance(generation, "low_cost")].platform_state = "added"
    /\ ~Pending(Instance(generation, "low_cost"))
    /\ Fresh(Instance(generation, "low_cost"))
    /\ ~Fresh(Instance(generation, "high_cost"))

\* the combination of the current host states a sensor of class kind is to
\* show
HostCombination(kind) ==
    LET lp == Refreshed(hostStates[CONF_LOW_TARIFF_ENTITY]).state.v
        hp == Refreshed(hostStates[CONF_HIGH_TARIFF_ENTITY]).state.v
        lc == Refreshed(hostStates[CONF_LOW_CONSUMPTION_ENTITY]).state.v
        hc == Refreshed(hostStates[CONF_HIGH_CONSUMPTION_ENTITY]).state.v
    IN  CASE kind = "low_cost" -> Num(lp * lc)
          [] kind = "high_cost" -> Num(hp * hc)
          [] kind = "total_cost" -> Num((lp * lc) + (hp * hc))
          [] kind = "total_consumption" -> Num(lc + hc)

\* C8: a change of a dependency D of a sensor schedules the update of the
\* sensor; and when the handler of a change of D from unavailable runs on a
\* sensor that read as unavailable, with all its dependencies now available
\* on the host, the sensor reads as available afterwards, with the
\* combination of the current host values.
C8_Reactivity ==
    [][/\ \A d \in Inputs :
             hostStates'[d] # hostStates[d]
                => \A i \in DeviceSensors :
                      d \in Include(i.kind) => Pending(i)'
       /\ (tasks # <<>> /\ tasks' = Tail(tasks))
             => LET i == Head(tasks).inst
                    e == Head(tasks).event
                IN  ( /\ ~Refreshed(e.old_state).available
                      /\ ~Available(entities[i], i.kind).value
                      /\ \A d \in Include(i.kind) :
                            Refreshed(hostStates[d]).available )
                    => /\ Available(entities'[i], i.kind) =
                             [raised |-> "", value |-> TRUE]
                       /\ NativeValue(entities'[i], i.kind) =
                             Returned(HostCombination(i.kind))]_vars

\* the low tariff went from unavailable to a reading while the other three
\* were available: the low cost sensor was handled and reads as available
\* with the combination, the total cost sensor is next and its published
\* state is still unavailable
C8_Witness ==
    /\ tasks # <<>>
    /\ Head(tasks).inst = Instance(generation, "total_cost")
    /\ Head(tasks).event.entity_id = CONF_LOW_TARIFF_ENTITY
    /\ ~Refreshed(Head(tasks).event.old_state).available
    /\ \A d \in Inputs : Refreshed(hostStates[d]).available
    /\ published["total_cost"].exists
    /\ ~published["total_cost"].available
    /\ ~Pending(Instance(generation, "low_cost"))
    /\ published["low_cost"] =
          [exists |-> TRUE, available |-> TRUE,
           value |-> HostCombination("low_cost")]

\* C9: a snapshot of a sensor changes only in a step that runs the
\* async_update of that sensor, and only if the sensor declares the
\* identifier; and across every step that leaves the snapshots of a sensor
\* alone, reading the sensor gives the same (available, value) pair.
C9_ReadsLeaveSnapshots ==
    [][\A i \in DOMAIN entities :
          /\ \A d \in Inputs :
                entities'[i][StateAttr(d)] # entities[i][StateAttr(d)]
                   => (d \in Include(i.kind) /\ RefreshStep(i))
          /\ (\A d \in Inputs :
                 entities'[i][StateAttr(d)] = entities[i][StateAttr(d)])
                => /\ Available(entities[i], i.kind)' =
                         Available(entities[i], i.kind)
                   /\ NativeValue(entities[i], i.kind)' =
                         NativeValue(entities[i], i.kind)]_vars

\* the low tariff became unavailable on the host and the low cost sensor,
\* not yet updated, still reads as available with the value of before
C9_Witness ==
    \E i \in DOMAIN entities :
        /\ i.kind = "low_cost"
        /\ tasks # <<>>
        /\ Head(tasks).inst = i
        /\ ~Refreshed(hostStates[CONF_LOW_TARIFF_ENTITY]).available
        /\ Available(entities[i], i.kind) = [raised |-> "", value |-> TRUE]
        /\ NativeValue(entities[i], i.kind) = Returned(Num(50))

\* C10 (as claimed): a change of a tracked input schedules updates only on
\* sensors of the load that is set up now, and at most one per sensor
\* class.
C10_NoUpdateOnEarlierLoad ==
    \A k \in 1..Len(tasks) :
        /\ loaded
        /\ tasks[k].inst.gen = generation
        /\ \A m \in 1..Len(tasks) :
              tasks[m].inst.kind = tasks[k].inst.kind => m = k

\* the low cost, high cost and total cost sensors of load g have each run
\* an update and none has a handler still to run
Quiescent(g) ==
    \A kind \in {"low_cost", "high_cost", "total_cost"} :
        /\ Instance(g, kind) \in DOMAIN entities
        /\ Settled(Instance(g, kind))

\* C11: in every quiescent state of the sensors of one load, the total cost
\* sensor is available exactly when the low cost and the high cost sensors
\* both are, and then total cost = low cost + high cost, although each
\* sensor holds its own snapshots and is refreshed by its own handler.
C11_CrossMetricConsistency ==
    \A g \in 1..generation :
        Quiescent(g) =>
           LET low == entities[Instance(g, "low_cost")]
               high == entities[Instance(g, "high_cost")]
               total == entities[Instance(g, "total_cost")]
               al == Available(low, "low_cost")
               ah == Available(high, "high_cost")
               at == Available(total, "total_cost")
               vl == NativeValue(low, "low_cost")
               vh == NativeValue(high, "high_cost")
               vt == NativeValue(total, "total_cost")
           IN  /\ al.raised = "" /\ ah.raised = "" /\ at.raised = ""
               /\ at.value <=> (al.value /\ ah.value)
               /\ at.value =>
                     /\ vl.raised = "" /\ vh.raised = "" /\ vt.raised = ""
                     /\ vt.value = FloatAdd(vl.value, vh.value)
                     /\ vt.value = Num(vl.value.v + vh.value.v)

\* after a change of the low tariff to a negative price, the three cost
\* sensors of the added load are quiescent and available, and the total
\* cost is the negative low cost plus the positive high cost, each read from
\* the sensor's own snapshots
C11_Witness ==
    /\ loaded
    /\ changes > 0
    /\ Quiescent(generation)
    /\ \A kind \in Kinds :
          entities[Instance(generation, kind)].platform_state = "added"
    /\ Available(entities[Instance(generation, "total_cost")], "total_cost").value
    /\ Snapshot(Instance(generation, "low_cost"), CONF_LOW_TARIFF_ENTITY).state.v < 0
    /\ NativeValue(entities[Instance(generation, "low_cost")], "low_cost").value.v < 0
    /\ NativeValue(entities[Instance(generation, "high_cost")], "high_cost").value.v > 0
    /\ NativeValue(entities[Instance(generation, "total_cost")], "total_cost").value.v
          = NativeValue(entities[Instance(generation, "low_cost")], "low_cost").value.v
            + NativeValue(entities[Instance(generation, "high_cost")], "high_cost").value.v
====
